---- MODULE Spec2Model ----
(***************************************************************************)
(* Packing::Interface (src/src/Interface.cpp): an interfacial segment, a   *)
(* set of lattice points with an unsigned 32-bit bounding box, and the     *)
(* merge of several segments into one under a registry keyed by id.        *)
(*                                                                         *)
(* Objects.  Segs are the Interface objects (the targets of the shared     *)
(* pointers).  An object keeps its points and bbox when the registry drops *)
(* it: the vector passed to mergeSegments still owns it.                   *)
(*                                                                         *)
(* Encoding of uint32_t.  TLC's integers are 32-bit signed, so a uint32_t  *)
(* value u is held as the integer u - 2^31.  The encoding is an order      *)
(* isomorphism of 0..2^32-1 onto -2^31..2^31-1: std::min, std::max, < and  *)
(* > on uint32_t are min, max, < and > on the encoded integers.  The       *)
(* conversion int -> uint32_t (value modulo 2^32) is static_cast_uint32:   *)
(* -1 becomes UINT32_MAX (held as 2^31-1), 0 becomes 0 (held as -2^31).    *)
(* Point coordinates are int, as the casts and the int offsets require.    *)
(***************************************************************************)
EXTENDS Integers, Sequences, FiniteSets

\* ------------------------------------------------------------------ bounds
NSeg == 3       \* Interface objects alive in a run
MaxAdds == 2    \* addPoint calls in a run
MaxList == 2    \* longest mergingSegments vector

Segs == 1..NSeg

\* ------------------------------------------------------- 32-bit arithmetic
INT32_MAX == 2147483647

\* static_cast<uint32_t>(x) of an int x, in the encoding above:
\* x >= 0 is the value x, x < 0 is the value x + 2^32.
static_cast_uint32(x) ==
    IF x >= 0 THEN (x - INT32_MAX) - 1 ELSE (x + INT32_MAX) + 1

UINT32_MAX == static_cast_uint32(-1)
U32_ZERO == static_cast_uint32(0)

Min(a, b) == IF b < a THEN b ELSE a
Max(a, b) == IF a < b THEN b ELSE a

\* ------------------------------------------------------------------ inputs
\* Lattice points handed to addPoint: the two points of the specification's
\* merge scenario, a point with negative and zero coordinates whose
\* neighbourhood reaches a corner neighbour of the origin, and a point at
\* the top of the range in which x + 1 does not overflow int.
Points ==
    { <<0, 0, 0>>, <<10, 10, 10>>, <<-1, -1, 0>>, <<INT32_MAX - 1, 1, 2>> }

\* Every vector of at most MaxList shared pointers to the objects.
Lists == UNION { [1..n -> Segs] : n \in 0..MaxList }

VARIABLES
    id,                   \* id[s]: Interface::id of object s
    segment,              \* segment[s]: Interface::segment, the point set
    bbox,                 \* bbox[s]: Interface::bbox, six encoded uint32_t
    interfacialSegments,  \* the registry: id -> object
    ret,                  \* <<b>>: the latest mergeSegments call returned b;
                          \* <<>>: no call yet
    added,                \* history: points passed to addPoint on s or on
                          \* a segment s absorbed
    nAbsorbed,            \* history: vector entries the latest mergeSegments
                          \* call absorbed (did not skip)
    nAdds                 \* addPoint calls so far

vars == <<id, segment, bbox, interfacialSegments, ret, added, nAbsorbed, nAdds>>

\* ------------------------------------------------------------- constructor
\* Interface::Interface: bbox = {UINT32_MAX x 3, 0 x 3}, segment empty.
InitBboxSwapped == <<U32_ZERO, U32_ZERO, U32_ZERO, UINT32_MAX, UINT32_MAX, UINT32_MAX>>
InitBbox == <<UINT32_MAX, UINT32_MAX, UINT32_MAX, U32_ZERO, U32_ZERO, U32_ZERO>>

\* The ids the constructor is given: object s gets id s, except that the
\* last object may be given the id of the first again (the constructor
\* takes any int, and two objects may share an id).
IdAssignments ==
    { f \in [Segs -> Segs] :
        /\ \A s \in Segs \ {NSeg} : f[s] = s
        /\ f[NSeg] \in {1, NSeg} }

\* The registry the caller passes in: keyed by segment id, it holds for
\* every id in use the first object constructed with that id.
FirstWithId(f, k) == CHOOSE s \in Segs : f[s] = k /\ \A t \in Segs : f[t] = k => s <= t
InitRegistry(f) == [k \in { f[s] : s \in Segs } |-> FirstWithId(f, k)]

Init ==
    /\ id \in IdAssignments
    /\ segment = [s \in Segs |-> {}]
    /\ bbox = [s \in Segs |-> InitBbox]
    /\ interfacialSegments = InitRegistry(id)
    /\ ret = <<>>
    /\ added = [s \in Segs |-> {}]
    /\ nAbsorbed = 0
    /\ nAdds = 0

\* ---------------------------------------------------------------- addPoint
\* The neighbourhood arrays of addPoint, 1-based.
dxShort == <<0, -1, 1, 0, 0, 0, 0, -1, -1, 1, 1, -1, -1, 1, 1, 0, 0, 0>>
dx == <<0, -1, 1, 0, 0, 0, 0, -1, -1, 1, 1, -1, -1, 1, 1, 0, 0, 0, 0>>
dy == <<0, 0, 0, -1, 1, 0, 0, -1, 1, -1, 1, 0, 0, 0, 0, -1, -1, 1, 1>>
dz == <<0, 0, 0, 0, 0, -1, 1, 0, 0, 0, 0, -1, 1, -1, 1, -1, 1, -1, 1>>

\* The loop "for i in 0..18: segment.insert(point + (dx[i],dy[i],dz[i]))".
neighborPoints(point) ==
    { <<point[1] + dx[i], point[2] + dy[i], point[3] + dz[i]>> : i \in DOMAIN dx }

\* pointBbox of addPoint: the point widened by one, converted to uint32_t.
pointBboxTight(point) ==
    << static_cast_uint32(point[1]), static_cast_uint32(point[2]),
       static_cast_uint32(point[3]), static_cast_uint32(point[1]),
       static_cast_uint32(point[2]), static_cast_uint32(point[3]) >>
pointBbox(point) ==
    << static_cast_uint32(point[1] - 1), static_cast_uint32(point[2] - 1),
       static_cast_uint32(point[3] - 1), static_cast_uint32(point[1] + 1),
       static_cast_uint32(point[2] + 1), static_cast_uint32(point[3] + 1) >>

\* Interface::mergeBbox: min of the first three, max of the last three.
mergeBboxAssign(box, otherBbox) == otherBbox
mergeBbox(box, otherBbox) ==
    [i \in 1..6 |-> IF i <= 3 THEN Min(otherBbox[i], box[i])
                              ELSE Max(otherBbox[i], box[i])]

\* What addPoint leaves behind in the current state.
addPointResult(self, point) ==
    [segment |-> [segment EXCEPT ![self] = @ \cup neighborPoints(point)],
     bbox |-> [bbox EXCEPT ![self] = mergeBbox(@, pointBbox(point))]]

addPoint(self, point) ==
    /\ nAdds < MaxAdds
    /\ segment' = addPointResult(self, point).segment
    /\ bbox' = addPointResult(self, point).bbox
    /\ added' = [added EXCEPT ![self] = @ \cup {point}]
    /\ nAdds' = nAdds + 1
    /\ UNCHANGED <<id, interfacialSegments, ret, nAbsorbed>>

\* ------------------------------------------------------ withinBbox/contains
withinBboxOf(box, point) ==
    /\ static_cast_uint32(point[1]) > box[1]
    /\ static_cast_uint32(point[2]) > box[2]
    /\ static_cast_uint32(point[3]) > box[3]
    /\ static_cast_uint32(point[1]) < box[4]
    /\ static_cast_uint32(point[2]) < box[5]
    /\ static_cast_uint32(point[3]) < box[6]

withinBbox(self, point) == withinBboxOf(bbox[self], point)

contains(self, point) == point \in segment[self]

\* ----------------------------------------------------------- mergeSegments
\* "if (mergingSegments.empty()) return false;"
isEmptyNever(mergingSegments) == FALSE
isEmpty(mergingSegments) == mergingSegments = <<>>

\* "if ((*it)->getId() == id) continue;"
isSelfNever(self, it) == FALSE
isSelf(self, it) == id[it] = id[self]

\* "for (elem : (*it)->segment) segment.insert(elem);"
transferPointsMove(seg, self, it) ==
    [seg EXCEPT ![self] = seg[self] \cup seg[it], ![it] = {}]
transferPoints(seg, self, it) ==
    [seg EXCEPT ![self] = seg[self] \cup seg[it]]

\* "interfacialSegments.erase(key)" of std::unordered_map.
eraseNothing(reg, key) == reg
erase(reg, key) == [k \in (DOMAIN reg) \ {key} |-> reg[k]]

\* The loop of mergeSegments from position i of the vector, on the values
\* seg, box, reg, gh of segment, bbox, the registry and the histories.
RECURSIVE mergeLoop(_, _, _, _, _, _, _)
mergeLoop(self, mergingSegments, i, seg, box, reg, gh) ==
    IF i > Len(mergingSegments)
    THEN [segment |-> seg, bbox |-> box, registry |-> reg, gh |-> gh]
    ELSE LET it == mergingSegments[i] IN
         IF isSelf(self, it)
         THEN mergeLoop(self, mergingSegments, i + 1, seg, box, reg, gh)
         ELSE mergeLoop(self, mergingSegments, i + 1,
                        transferPoints(seg, self, it),
                        [box EXCEPT ![self] = mergeBbox(box[self], box[it])],
                        erase(reg, id[it]),
                        [added |-> [gh.added EXCEPT ![self] = @ \cup gh.added[it]],
                         n |-> gh.n + 1])

\* What mergeSegments leaves behind in the current state.
mergeResult(self, mergingSegments) ==
    IF isEmpty(mergingSegments)
    THEN [segment |-> segment, bbox |-> bbox, registry |-> interfacialSegments,
          gh |-> [added |-> added, n |-> 0], ret |-> FALSE]
    ELSE LET r == mergeLoop(self, mergingSegments, 1, segment, bbox,
                            interfacialSegments,
                            [added |-> added, n |-> 0])
         IN [segment |-> r.segment, bbox |-> r.bbox, registry |-> r.registry,
             gh |-> r.gh, ret |-> TRUE]

mergeSegments(self, mergingSegments) ==
    LET r == mergeResult(self, mergingSegments) IN
    /\ segment' = r.segment
    /\ bbox' = r.bbox
    /\ interfacialSegments' = r.registry
    /\ ret' = <<r.ret>>
    /\ added' = r.gh.added
    /\ nAbsorbed' = r.gh.n
    /\ UNCHANGED <<id, nAdds>>

\* ------------------------------------------------------------ specification
AddPointCall == \E self \in Segs, point \in Points : addPoint(self, point)
MergeSegmentsCall == \E self \in Segs, L \in Lists : mergeSegments(self, L)

Next == AddPointCall \/ MergeSegmentsCall

Spec == Init /\ [][Next]_vars

TypeOK ==
    /\ id \in [Segs -> Segs]
    /\ \A s \in Segs : IsFiniteSet(segment[s])
    /\ ret \in {<<>>, <<TRUE>>, <<FALSE>>}
    /\ nAbsorbed \in 0..MaxList
    /\ nAdds \in 0..MaxAdds

\* ============================================================== properties
Units == {-1, 0, 1}
Shift(p, o) == <<p[1] + o[1], p[2] + o[2], p[3] + o[3]>>

\* The zero, face and edge offsets: at least one component is 0.
FaceEdgeOffsets ==
    { o \in Units \X Units \X Units : o[1] = 0 \/ o[2] = 0 \/ o[3] = 0 }
\* The corner offsets: no component is 0.
CornerOffsets ==
    { o \in Units \X Units \X Units : o[1] # 0 /\ o[2] # 0 /\ o[3] # 0 }

\* Points the queries are asked about: every input point and its 26
\* neighbours, so also points with only negative coordinates.
Probes == { Shift(p, o) : p \in Points, o \in Units \X Units \X Units }

Least(S) == CHOOSE x \in S : \A y \in S : x <= y
Greatest(S) == CHOOSE x \in S : \A y \in S : y <= x

\* The entries of a vector that mergeSegments(a, L) does not skip.
Sources(a, L) == { L[i] : i \in { j \in DOMAIN L : id[L[j]] # id[a] } }

\* C1: every member of a segment's point set passes the strict bounding-box
\* test: contains(p) implies withinBbox(p).
C1_ContainsImpliesWithinBbox ==
    \A s \in Segs : \A p \in Probes : contains(s, p) => withinBbox(s, p)

\* C2: with any points added (directly or through a merge), bbox is the
\* coordinate-wise minimum less one and maximum plus one of the directly
\* added points, as uint32_t values.
C2_BboxIsWidenedMinMax ==
    \A s \in Segs :
        added[s] # {} =>
            bbox[s] = [i \in 1..6 |->
                IF i <= 3
                THEN static_cast_uint32(Least({ p[i] : p \in added[s] }) - 1)
                ELSE static_cast_uint32(Greatest({ p[i - 3] : p \in added[s] }) + 1)]

\* C3: in every state, addPoint(p) on any segment adds exactly the 19
\* points p + o, o a zero, face or edge offset: all 19 are members
\* afterwards, a corner neighbour is a member afterwards only if it was one
\* before, earlier members stay, and no other segment's point set changes.
C3_AddPointDilation ==
    \A s \in Segs, p \in Points :
        LET after == addPointResult(s, p).segment
        IN /\ after[s] = segment[s] \cup { Shift(p, o) : o \in FaceEdgeOffsets }
           /\ \A o \in FaceEdgeOffsets : Shift(p, o) \in after[s]
           /\ \A c \in CornerOffsets :
                Shift(p, c) \in after[s] => Shift(p, c) \in segment[s]
           /\ segment[s] \subseteq after[s]
           /\ \A t \in Segs \ {s} : after[t] = segment[t]

\* C3 witness: a segment holds a directly added point of which one corner
\* neighbour is a member (it came from another addPoint) and another is not.
C3_Witness ==
    \E s \in Segs : \E p \in added[s] :
        /\ \A o \in FaceEdgeOffsets : contains(s, Shift(p, o))
        /\ \E c \in CornerOffsets : contains(s, Shift(p, c))
        /\ \E c \in CornerOffsets : ~contains(s, Shift(p, c))

\* C4: in every state, mergeSegments(L) with L non-empty leaves the
\* destination's points the union of its points and those of the entries
\* whose id differs from its own, its bbox the component-wise min/max over
\* the same segments, and the registry the old one less exactly those
\* entries' ids, the destination's own entry included as it was.
C4_MergeEffect ==
    \A a \in Segs, L \in Lists \ {<<>>} :
        LET r == mergeResult(a, L)
            src == Sources(a, L)
            reg == interfacialSegments
        IN /\ r.segment[a] = segment[a] \cup UNION { segment[s] : s \in src }
           /\ r.bbox[a] = [i \in 1..6 |->
                IF i <= 3
                THEN Least({bbox[a][i]} \cup { bbox[s][i] : s \in src })
                ELSE Greatest({bbox[a][i]} \cup { bbox[s][i] : s \in src })]
           /\ DOMAIN r.registry = (DOMAIN reg) \ { id[s] : s \in src }
           /\ \A k \in DOMAIN r.registry : r.registry[k] = reg[k]
           /\ id[a] \in DOMAIN reg =>
                id[a] \in DOMAIN r.registry /\ r.registry[id[a]] = reg[id[a]]

\* C4 witness: the latest call absorbed an entry; a registered destination
\* holds its own points and those of an evicted segment.
C4_Witness ==
    /\ ret = <<TRUE>>
    /\ nAbsorbed >= 1
    /\ \E a, b \in Segs :
         /\ id[a] # id[b]
         /\ added[b] # {} /\ added[b] \subseteq added[a] /\ added[a] # added[b]
         /\ segment[b] \subseteq segment[a]
         /\ id[b] \notin DOMAIN interfacialSegments
         /\ id[a] \in DOMAIN interfacialSegments
         /\ interfacialSegments[id[a]] = a

\* C5: in every state, mergeSegments with an empty vector returns false and
\* changes neither points, bbox nor registry; and it returns false for no
\* other vector.
C5_EmptyVector ==
    /\ \A a \in Segs :
         LET r == mergeResult(a, <<>>)
         IN /\ r.ret = FALSE
            /\ r.segment = segment /\ r.bbox = bbox
            /\ r.registry = interfacialSegments
    /\ \A a \in Segs, L \in Lists :
         mergeResult(a, L).ret = FALSE => L = <<>>

\* C5 witness: the latest call returned false while points and registry
\* entries existed that it could have changed.
C5_Witness ==
    /\ ret = <<FALSE>>
    /\ \E s \in Segs : segment[s] # {}
    /\ DOMAIN interfacialSegments # {}

\* C6: in every state, mergeSegments with a non-empty vector whose entries
\* all have the destination's id returns true and changes neither points,
\* bbox nor registry; the destination's id stays in the registry.
C6_SelfOnlyVector ==
    \A a \in Segs, L \in Lists \ {<<>>} :
        (\A i \in DOMAIN L : id[L[i]] = id[a]) =>
            LET r == mergeResult(a, L)
            IN /\ r.ret = TRUE
               /\ r.segment = segment /\ r.bbox = bbox
               /\ r.registry = interfacialSegments

\* C6 witness: the latest call returned true having absorbed nothing, with
\* every id still registered and some segment holding points.
C6_Witness ==
    /\ ret = <<TRUE>>
    /\ nAbsorbed = 0
    /\ \A s \in Segs : id[s] \in DOMAIN interfacialSegments
    /\ \E s \in Segs : segment[s] # {}

\* The vectors that are permutations of L.
Permutations(L) ==
    { [i \in DOMAIN L |-> L[f[i]]] :
        f \in { g \in [DOMAIN L -> DOMAIN L] :
                  \A i, j \in DOMAIN L : g[i] = g[j] => i = j } }

\* What a caller sees of mergeSegments(a, L): the destination's points and
\* bbox, the registry and the return value.
Outcome(a, L) ==
    LET r == mergeResult(a, L)
    IN <<r.segment[a], r.bbox[a], r.registry, r.ret>>

\* C7: from any state, vectors that are permutations of each other (with or
\* without repeated entries) leave the same destination points, destination
\* bbox and registry and return the same value.
C7_OrderIndependent ==
    \A a \in Segs, L1 \in Lists :
        \A L2 \in Permutations(L1) : Outcome(a, L1) = Outcome(a, L2)

\* C7 witness: the latest call absorbed two entries, and the destination
\* holds the points of two other segments that differ in points and bbox.
C7_Witness ==
    /\ nAbsorbed = 2
    /\ \E a, b, c \in Segs :
         /\ b # c /\ id[b] # id[a] /\ id[c] # id[a]
         /\ segment[b] # {} /\ segment[c] # {} /\ segment[b] # segment[c]
         /\ bbox[b] # bbox[c]
         /\ segment[b] \cup segment[c] \subseteq segment[a]
         /\ Outcome(a, <<b, c>>) = Outcome(a, <<c, b>>)

\* C8: on a segment that got no point by addPoint, nor by absorbing a
\* segment that did, withinBbox is false for every point.
C8_SentinelRejectsAll ==
    \A s \in Segs :
        added[s] = {} => \A p \in Probes : ~withinBbox(s, p)

\* C8 witness: no point was ever added anywhere, and the latest call made
\* one never-added-to segment absorb another.
C8_Witness ==
    /\ \A s \in Segs : added[s] = {}
    /\ ret = <<TRUE>>
    /\ nAbsorbed >= 1

\* Coordinates in 1..2^31-2.
InRange(p) == \A i \in 1..3 : 1 <= p[i] /\ p[i] <= INT32_MAX - 1

\* C9: a point passed to addPoint on a segment, or on one it absorbed, with
\* all coordinates in 1..2^31-2 passes withinBbox on that segment whatever
\* else was added or merged.
C9_AddedPointWithinBbox ==
    \A s \in Segs : \A p \in added[s] : InRange(p) => withinBbox(s, p)

\* C9 witness: after a merge that absorbed an entry, a segment holds an
\* in-range added point, the added point at the top of the range, and an
\* added point with zero or negative coordinates.
C9_Witness ==
    /\ nAbsorbed >= 1
    /\ \E s \in Segs : \E p, q \in added[s] :
         /\ InRange(p) /\ p[1] = INT32_MAX - 1
         /\ ~InRange(q) /\ q[1] <= 0

\* C10: mergeSegments changes no other segment's points or bbox and no
\* registry entry that it leaves in the registry (in every state, for every
\* destination and vector), and no step changes a segment's id.
C10_SourcesUntouched ==
    /\ [](\A a \in Segs, L \in Lists :
            LET r == mergeResult(a, L)
            IN /\ \A s \in Segs \ {a} :
                    r.segment[s] = segment[s] /\ r.bbox[s] = bbox[s]
               /\ \A k \in DOMAIN r.registry :
                    /\ k \in DOMAIN interfacialSegments
                    /\ r.registry[k] = interfacialSegments[k])
    /\ [][id' = id]_vars

\* C10 witness: after a call that absorbed an entry, a segment evicted from
\* the registry still holds its points and its bbox and can be absorbed
\* again by another segment.
C10_Witness ==
    /\ nAbsorbed >= 1
    /\ \E b \in Segs :
         /\ id[b] \notin DOMAIN interfacialSegments
         /\ segment[b] # {} /\ bbox[b] # InitBbox
         /\ \E a \in Segs :
              /\ id[a] # id[b] /\ segment[b] \subseteq segment[a]
              /\ ~(segment[a] \subseteq segment[b])
         /\ \E c \in Segs :
              /\ id[c] # id[b]
              /\ mergeResult(c, <<b>>).segment[c] = segment[c] \cup segment[b]
====
